---- MODULE Spec2Model ----
(***************************************************************************)
(* Model of the mycelium orchestrator (code/main.py) and of the seeding    *)
(* session it supervises (code/modules/seedbox.py).                        *)
(*                                                                         *)
(* Two threads exist.  The event-loop thread runs main(), asyncio.run(),   *)
(* the coroutine Orchestrator.run() and the three tasks it creates; only   *)
(* one of them executes at a time and they switch at their awaits.  The    *)
(* single ThreadPoolExecutor worker runs Seedbox.seed_content().  Signal   *)
(* handlers run on the event-loop thread between two bytecodes, so a       *)
(* signal may be handled while has_updates() or pull_updates() is in       *)
(* progress or while the thread is blocked in executor.shutdown().         *)
(***************************************************************************)
EXTENDS Integers, FiniteSets, Sequences, TLC

\* ---- bounds of the model ------------------------------------------------
MaxPolls == 3
MaxBeats == 2
MaxFiles == 1
MaxSeedFiles == 3

\* ---- names --------------------------------------------------------------
Tasks == {"check_for_updates", "heartbeat", "run_seedbox"}
Signals == {"SIGINT", "SIGTERM"}
ExitCodes == {"EXIT_SUCCESS", "EXIT_FAILURE", "EXIT_RESTART"}

VARIABLES
  running,    \* Orchestrator.running
  stopRequested, \* a signal has been handled since construction
  main_pc,    \* main(): "constructed", "asyncio_run", "exited"
  exitCode,   \* the process exit code, "none" while the process lives
  sysExit,    \* a SystemExit raised by sys.exit() is leaving the event loop
  run_pc,     \* Orchestrator.run(): "init", "gather" (line 102), "await2"
              \*   (line 108), "shutdown" (inside line 109), "stopped"
  runExc,     \* what the first gather raised into run()
  tpc,        \* position of each task: "none", "new", "has", "pull",
              \*   "sleep", "ready", "await", "done"
  tres,       \* result of each task: "pending", "returned", "raised",
              \*   "sysexit", "cancelled"
  cancelReq,  \* Task.cancel() was accepted and not yet delivered
  cancels,    \* per task: how many Task.cancel() calls returned True
  hasCalls,   \* has_updates() calls issued
  hasInFlight, \* has_updates() calls issued and not yet returned
  syncErrs,   \* CodeSyncError raised by has_updates() or pull_updates()
  allErrors,  \* every has_updates()/pull_updates() round so far failed
  umSleeps,   \* poll-interval sleeps of check_for_updates that elapsed
  emits,      \* "Orchestrator Running" records written
  wpc,        \* worker: "idle", "queued", "cancelled", "load" (session
              \*   initialised), "loop", "raised"
  werr,       \* where seed_content failed: "none", "dir_not_found",
              \*   "no_files", "no_torrents", "status"
  session,    \* Seedbox.session is set (lt.session() created, ports bound)
  dirExists,  \* the content directory exists
  nfiles,     \* eligible files in the content directory: 1..nfiles
  torrents,   \* the files whose companion .torrent file exists
  preexisting, \* the files whose companion existed when main() started
  created,    \* .torrent files written by _create_torrent
  handles,    \* len(Seedbox.handles)
  addFailed,  \* files _add_torrents logged "Failed to add" for
  status      \* last get_status() snapshot logged by the session loop

vars == <<running, stopRequested, main_pc, exitCode, sysExit, run_pc, runExc,
          tpc, tres, cancelReq, cancels, hasCalls, hasInFlight, syncErrs,
          allErrors, umSleeps, emits, wpc, werr, session, dirExists, nfiles,
          torrents, preexisting, created, handles, addFailed, status>>

orchVars == <<running, stopRequested, main_pc, exitCode, sysExit, run_pc, runExc>>
taskVars == <<tpc, tres, cancelReq, cancels>>
umVars == <<hasCalls, hasInFlight, syncErrs, allErrors, umSleeps>>
contentVars == <<dirExists, nfiles>>
seedVars == <<werr, session, torrents, preexisting, created, handles, addFailed, status>>

\* ---- helpers ------------------------------------------------------------
Done(t) == tpc[t] = "done"

\* The event-loop thread is inside a blocking call made by a task or by
\* run(): no other task and no callback of the loop can execute.
\* a bridge that runs seed_content on the event-loop thread (defined here,
\* ahead of loopBusy, whose place it takes in the check of C15)
loopBusy_seeding ==
  \/ tpc["check_for_updates"] \in {"has", "pull"} \/ run_pc = "shutdown"
  \/ (tpc["run_seedbox"] = "await" /\ wpc \in {"queued", "load", "loop"})

loopBusy == tpc["check_for_updates"] \in {"has", "pull"} \/ run_pc = "shutdown"

\* a cancel() that is accepted by a finished task as well
task_cancel_always(t) == TRUE

\* asyncio.Task.cancel(): returns False on a finished task and does nothing,
\* returns True otherwise; the CancelledError is delivered at the task's
\* next step.
task_cancel(t) == ~Done(t)

\* the worker thread is not executing a work item and has none queued
workerIdle == wpc \in {"idle", "cancelled", "raised"}

\* ---- initial state: Orchestrator() constructed, handlers installed ------
\* the content directory as main() finds it, with at most maxf eligible files
ContentInit(maxf) ==
  /\ dirExists \in BOOLEAN
  /\ nfiles \in 0..maxf
  /\ (~dirExists => nfiles = 0)
  /\ torrents \in SUBSET (1..nfiles)
  /\ preexisting = torrents

\* Orchestrator.__init__ and Seedbox.__init__
OrchInit ==
  /\ running = FALSE
  /\ stopRequested = FALSE
  /\ main_pc = "constructed"
  /\ exitCode = "none"
  /\ sysExit = FALSE
  /\ run_pc = "init"
  /\ runExc = "none"
  /\ tpc = [t \in Tasks |-> "none"]
  /\ tres = [t \in Tasks |-> "pending"]
  /\ cancelReq = [t \in Tasks |-> FALSE]
  /\ cancels = [t \in Tasks |-> 0]
  /\ hasCalls = 0 /\ hasInFlight = 0 /\ syncErrs = 0 /\ allErrors = TRUE
  /\ umSleeps = 0 /\ emits = 0
  /\ wpc = "idle" /\ werr = "none" /\ session = FALSE
  /\ created = 0 /\ handles = 0 /\ addFailed = 0
  /\ status = [logged |-> FALSE, active |-> FALSE, torrents |-> 0]

Init == OrchInit /\ ContentInit(MaxFiles)

\* ---- SignalBridge: Orchestrator._handle_shutdown --------------------------
\* a handler installed for SIGTERM only
handle_shutdown_sigterm_only(signum, r) == IF signum = "SIGTERM" THEN FALSE ELSE r

\* a handler that flips the flag
handle_shutdown_toggle(signum, r) == ~r

\* self.running = False, whatever the signal
handle_shutdown(signum, r) == FALSE

Signal(signum) ==
  /\ main_pc # "exited"
  /\ running' = handle_shutdown(signum, running)
  /\ stopRequested' = TRUE
  /\ UNCHANGED <<main_pc, exitCode, sysExit, run_pc, runExc>>
  /\ UNCHANGED <<taskVars, umVars, emits, wpc, contentVars, seedVars>>

\* ---- main() enters asyncio.run(); run() runs up to its first await -------
main_run ==
  /\ main_pc = "constructed"
  /\ main_pc' = "asyncio_run"
  /\ running' = TRUE
  /\ tpc' = [t \in Tasks |-> "new"]
  /\ run_pc' = "gather"
  /\ UNCHANGED <<stopRequested, exitCode, sysExit, runExc, tres, cancelReq, cancels>>
  /\ UNCHANGED <<umVars, emits, wpc, contentVars, seedVars>>

\* ---- UpdateMonitor: Orchestrator.check_for_updates ------------------------
\* a loop that does not look at the flag
check_for_updates_while_true(r) == TRUE

\* while self.running
check_for_updates_while(r) == r

\* the loop condition, and the call of has_updates() when it holds
check_for_updates_top ==
  /\ main_pc = "asyncio_run" /\ ~loopBusy
  /\ tpc["check_for_updates"] \in {"new", "ready"}
  /\ ~cancelReq["check_for_updates"]
  /\ IF check_for_updates_while(running)
       THEN /\ hasCalls < MaxPolls
            /\ tpc' = [tpc EXCEPT !["check_for_updates"] = "has"]
            /\ hasCalls' = hasCalls + 1
            /\ hasInFlight' = hasInFlight + 1
            /\ UNCHANGED tres
       ELSE /\ tpc' = [tpc EXCEPT !["check_for_updates"] = "done"]
            /\ tres' = [tres EXCEPT !["check_for_updates"] = "returned"]
            /\ UNCHANGED <<hasCalls, hasInFlight>>
  /\ UNCHANGED <<orchVars, cancelReq, cancels, syncErrs, allErrors,
                 umSleeps, emits, wpc, contentVars, seedVars>>

\* a handler that absorbs nothing
check_for_updates_except_none(exc) == "propagates"

\* what the except clause of check_for_updates does with an exception
check_for_updates_except(exc) ==
  IF exc = "CodeSyncError" THEN "absorbed" ELSE "propagates"

\* a loop that goes back to its condition without sleeping
check_for_updates_no_sleep == "ready"

\* where the task is after the try statement: in asyncio.sleep
check_for_updates_after_try == "sleep"

\* an exception leaves has_updates() or pull_updates()
check_for_updates_raise(exc) ==
  /\ syncErrs' = IF exc = "CodeSyncError" THEN syncErrs + 1 ELSE syncErrs
  /\ IF check_for_updates_except(exc) = "absorbed"
       THEN /\ tpc' = [tpc EXCEPT !["check_for_updates"] = check_for_updates_after_try]
            /\ UNCHANGED tres
       ELSE /\ tpc' = [tpc EXCEPT !["check_for_updates"] = "done"]
            /\ tres' = [tres EXCEPT !["check_for_updates"] = "raised"]

has_updates_returns(outcome) ==
  /\ tpc["check_for_updates"] = "has"
  /\ hasInFlight' = hasInFlight - 1
  /\ CASE outcome = "true" ->
            /\ tpc' = [tpc EXCEPT !["check_for_updates"] = "pull"]
            /\ UNCHANGED <<tres, syncErrs, allErrors>>
       [] outcome = "false" ->
            /\ tpc' = [tpc EXCEPT !["check_for_updates"] = check_for_updates_after_try]
            /\ allErrors' = FALSE
            /\ UNCHANGED <<tres, syncErrs>>
       [] OTHER ->
            /\ check_for_updates_raise(outcome)
            /\ UNCHANGED allErrors
  /\ UNCHANGED <<orchVars, cancelReq, cancels, hasCalls, umSleeps, emits, wpc,
                 contentVars, seedVars>>

\* sys.exit(EXIT_RESTART): SystemExit ends the task, leaves the event loop
\* at once, and asyncio.run() cancels every task that is still pending
\* before it lets the SystemExit out.
pull_updates_returns(outcome) ==
  /\ tpc["check_for_updates"] = "pull"
  /\ CASE outcome = "ok" ->
            /\ tpc' = [tpc EXCEPT !["check_for_updates"] = "done"]
            /\ tres' = [tres EXCEPT !["check_for_updates"] = "sysexit"]
            /\ sysExit' = TRUE
            /\ cancelReq' = [t \in Tasks |->
                 t # "check_for_updates" /\ (cancelReq[t] \/ task_cancel(t))]
            /\ cancels' = [t \in Tasks |->
                 IF t # "check_for_updates" /\ task_cancel(t)
                   THEN cancels[t] + 1 ELSE cancels[t]]
            /\ UNCHANGED <<syncErrs>>
       [] OTHER ->
            /\ check_for_updates_raise(outcome)
            /\ UNCHANGED <<sysExit, cancelReq, cancels>>
  /\ UNCHANGED <<running, stopRequested, main_pc, exitCode, run_pc, runExc,
                 hasCalls, hasInFlight, allErrors, umSleeps, emits, wpc,
                 contentVars, seedVars>>

\* the poll-interval sleep elapses and the loop wakes the task
check_for_updates_wake ==
  /\ main_pc = "asyncio_run" /\ ~loopBusy
  /\ tpc["check_for_updates"] = "sleep"
  /\ ~cancelReq["check_for_updates"]
  /\ tpc' = [tpc EXCEPT !["check_for_updates"] = "ready"]
  /\ umSleeps' = umSleeps + 1
  /\ UNCHANGED <<orchVars, tres, cancelReq, cancels, hasCalls, hasInFlight,
                 syncErrs, allErrors, emits, wpc, contentVars, seedVars>>

\* ---- HeartbeatEmitter: Orchestrator.heartbeat -----------------------------
\* one evaluation of the loop condition and, when it holds, one record and
\* the start of the sleep; "Exception" is a failure of the logging call;
\* the model follows the loop for MaxBeats iterations, whatever their
\* outcome
\* while self.running
heartbeat_while(r) == r

heartbeat_step(outcome) ==
  /\ main_pc = "asyncio_run" /\ ~loopBusy
  /\ tpc["heartbeat"] \in {"new", "ready"}
  /\ ~cancelReq["heartbeat"]
  /\ IF heartbeat_while(running)
       THEN /\ emits < MaxBeats
            /\ IF outcome = "ok"
                 THEN /\ emits' = emits + 1
                      /\ tpc' = [tpc EXCEPT !["heartbeat"] = "sleep"]
                      /\ UNCHANGED tres
                 ELSE /\ tpc' = [tpc EXCEPT !["heartbeat"] = "done"]
                      /\ tres' = [tres EXCEPT !["heartbeat"] = "raised"]
                      /\ UNCHANGED emits
       ELSE /\ outcome = "ok"
            /\ tpc' = [tpc EXCEPT !["heartbeat"] = "done"]
            /\ tres' = [tres EXCEPT !["heartbeat"] = "returned"]
            /\ UNCHANGED emits
  /\ UNCHANGED <<orchVars, cancelReq, cancels, umVars, wpc, contentVars, seedVars>>

heartbeat_wake ==
  /\ main_pc = "asyncio_run" /\ ~loopBusy
  /\ tpc["heartbeat"] = "sleep"
  /\ ~cancelReq["heartbeat"]
  /\ tpc' = [tpc EXCEPT !["heartbeat"] = "ready"]
  /\ UNCHANGED <<orchVars, tres, cancelReq, cancels, umVars, emits, wpc,
                 contentVars, seedVars>>

\* ---- SeedingBridge: Orchestrator.run_seedbox ------------------------------
\* run_in_executor submits seed_content to the worker and the task suspends
run_seedbox_start ==
  /\ main_pc = "asyncio_run" /\ ~loopBusy
  /\ tpc["run_seedbox"] = "new"
  /\ ~cancelReq["run_seedbox"]
  /\ tpc' = [tpc EXCEPT !["run_seedbox"] = "await"]
  /\ wpc' = "queued"
  /\ UNCHANGED <<orchVars, tres, cancelReq, cancels, umVars, emits,
                 contentVars, seedVars>>

\* the kind of the exception seed_content's body raised
seed_content_raised(err) ==
  IF err \in {"dir_not_found", "no_files", "no_torrents"}
    THEN "SeedboxError" ELSE "Exception"

\* seed_content's own handler: every Exception leaves as SeedboxError
seed_content_except(exc) == "SeedboxError"

\* a handler that logs the declared error and raises it again
run_seedbox_except_reraise(exc) ==
  IF exc = "SeedboxError" THEN "raised" ELSE "returned"

\* the two except clauses of run_seedbox: log, and return normally
run_seedbox_except(exc) ==
  IF exc = "SeedboxError" THEN "returned" ELSE "returned"

run_seedbox_complete ==
  /\ main_pc = "asyncio_run" /\ ~loopBusy
  /\ tpc["run_seedbox"] = "await"
  /\ ~cancelReq["run_seedbox"]
  /\ wpc = "raised"
  /\ tpc' = [tpc EXCEPT !["run_seedbox"] = "done"]
  /\ tres' = [tres EXCEPT !["run_seedbox"] =
                run_seedbox_except(seed_content_except(seed_content_raised(werr)))]
  /\ UNCHANGED <<orchVars, cancelReq, cancels, umVars, emits, wpc,
                 contentVars, seedVars>>

\* a cancellation that also stops the work item the worker is running
future_cancel_running(t, w) ==
  IF t = "run_seedbox" /\ w \in {"queued", "load", "loop"} THEN "cancelled" ELSE w

\* concurrent.futures.Future.cancel(), reached from the cancelled
\* run_in_executor future: it removes a work item that has not started and
\* does nothing to one that is running
future_cancel(t, w) ==
  IF t = "run_seedbox" /\ w = "queued" THEN "cancelled" ELSE w

\* ---- delivery of CancelledError at the await a task is suspended in ------
\* None of the three coroutines catches it.  Cancelling the run_seedbox
\* task cancels the executor future: a work item the worker has not yet
\* taken is dropped, a running one is left alone.
task_cancelled(t) ==
  /\ main_pc = "asyncio_run" /\ ~loopBusy
  /\ cancelReq[t] /\ ~Done(t)
  /\ tpc' = [tpc EXCEPT ![t] = "done"]
  /\ tres' = [tres EXCEPT ![t] = "cancelled"]
  /\ cancelReq' = [cancelReq EXCEPT ![t] = FALSE]
  /\ wpc' = future_cancel(t, wpc)
  /\ UNCHANGED <<orchVars, cancels, umVars, emits, contentVars, seedVars>>

\* ---- Supervisor: Orchestrator.run ----------------------------------------
\* for task in tasks: task.cancel() -- the requests pending afterwards, and
\* the number of accepted requests per task
\* a finally block that cancels nothing
cancel_none == cancelReq

cancel_all_requests == [t \in Tasks |-> cancelReq[t] \/ task_cancel(t)]

cancel_all_counts ==
  [t \in Tasks |-> IF task_cancel(t) THEN cancels[t] + 1 ELSE cancels[t]]

\* a wait that ends with the first task that returns
gather_any_returned == \E t \in Tasks : tres[t] = "returned"

\* asyncio.gather(*tasks) has a result when each of its tasks has returned
gather_all_returned == \A t \in Tasks : tres[t] = "returned"

\* await asyncio.gather(*tasks) ends: every task returned, or a task raised
\* (the others keep running), or a SystemExit is leaving the loop.  In the
\* last case the tasks asyncio.run() cancelled were woken before run() is.
\* run() goes on, without an await in between, through its except clause
\* into the finally block and calls cancel() on each of the three tasks.
run_gather_ends ==
  /\ main_pc = "asyncio_run" /\ ~loopBusy
  /\ run_pc = "gather"
  /\ \/ /\ gather_all_returned
        /\ runExc' = "none"
     \/ /\ \E t \in Tasks : tres[t] = "raised"
        /\ sysExit => \A t \in Tasks : ~cancelReq[t]
        /\ runExc' = "Exception"
     \/ /\ sysExit
        /\ \A t \in Tasks : tres[t] # "raised" /\ ~cancelReq[t]
        /\ runExc' = "SystemExit"
  /\ cancelReq' = cancel_all_requests
  /\ cancels' = cancel_all_counts
  /\ run_pc' = "await2"
  /\ UNCHANGED <<running, stopRequested, main_pc, exitCode, sysExit>>
  /\ UNCHANGED <<tpc, tres, umVars, emits, wpc, contentVars, seedVars>>

\* await asyncio.gather(*tasks, return_exceptions=True) ends when all three
\* tasks are done; whatever they raised is a value of the result list.
\* run() then enters self.executor.shutdown(wait=True).
run_await_done ==
  /\ main_pc = "asyncio_run" /\ ~loopBusy
  /\ run_pc = "await2"
  /\ \A t \in Tasks : Done(t)
  /\ run_pc' = "shutdown"
  /\ UNCHANGED <<running, stopRequested, main_pc, exitCode, sysExit, runExc>>
  /\ UNCHANGED <<taskVars, umVars, emits, wpc, contentVars, seedVars>>

\* executor.shutdown(wait=True) returns once the worker thread has ended,
\* which it does when no work item is queued or running.
run_executor_shutdown ==
  /\ main_pc = "asyncio_run"
  /\ run_pc = "shutdown"
  /\ workerIdle
  /\ run_pc' = "stopped"
  /\ UNCHANGED <<running, stopRequested, main_pc, exitCode, sysExit, runExc>>
  /\ UNCHANGED <<taskVars, umVars, emits, wpc, contentVars, seedVars>>

\* ---- main(): the exit code --------------------------------------------
\* SystemExit passes main()'s handlers; an Exception out of run() is caught
\* by "except Exception"; otherwise asyncio.run() returns.
main_exit_code(sx, exc) ==
  IF sx THEN "EXIT_RESTART"
  ELSE IF exc = "Exception" THEN "EXIT_FAILURE"
  ELSE "EXIT_SUCCESS"

main_returns ==
  /\ main_pc = "asyncio_run"
  /\ run_pc = "stopped"
  /\ main_pc' = "exited"
  /\ exitCode' = main_exit_code(sysExit, runExc)
  /\ UNCHANGED <<running, stopRequested, sysExit, run_pc, runExc>>
  /\ UNCHANGED <<taskVars, umVars, emits, wpc, contentVars, seedVars>>

\* ---- the worker thread: Seedbox.seed_content ------------------------------
\* the worker takes the work item; _initialize_session creates the session
\* and binds the listen ports
seed_initialize_session ==
  /\ wpc = "queued"
  /\ wpc' = "load"
  /\ session' = TRUE
  /\ UNCHANGED <<orchVars, taskVars, umVars, emits, contentVars>>
  /\ UNCHANGED <<werr, torrents, preexisting, created, handles, addFailed, status>>

\* Seedbox._load_content_files: the error it raises, "none" if it returns
load_content_files(exists, n) ==
  IF ~exists THEN "dir_not_found"
  ELSE IF n = 0 THEN "no_files"
  ELSE "none"

\* a _create_torrent without the torrent_file.exists() test
create_torrent_always(f, existing) == TRUE

\* Seedbox._create_torrent: does it write a new .torrent file for f
create_torrent_writes(f, existing) == f \notin existing

\* what the loop of _add_torrents can do with one file:
\*   "ok"            the torrent is reused or created, and registered
\*   "create_fails"  _create_torrent raises before it writes the file
\*   "add_fails"     torrent_info / add_torrent raises
\* a failure is logged and the loop goes on with the next file
AddOutcomes(existing) ==
  {o \in [1..nfiles -> {"ok", "create_fails", "add_fails"}] :
     \A f \in 1..nfiles : o[f] = "create_fails" => create_torrent_writes(f, existing)}

\* the files _add_torrents wrote a .torrent for, and those it registered
add_torrents_written(o, existing) ==
  {f \in 1..nfiles : create_torrent_writes(f, existing) /\ o[f] # "create_fails"}

add_torrents_handles(o) == {f \in 1..nfiles : o[f] = "ok"}

\* the files whose iteration ended in the except clause of the loop
add_torrents_failed(o) == {f \in 1..nfiles : o[f] # "ok"}

\* a seed_content without the test of self.handles
check_handles_none(h) == "none"

\* if not self.handles: raise SeedboxError("No torrents loaded")
check_handles(h) == IF h = 0 THEN "no_torrents" ELSE "none"

\* seed_content from _load_content_files to the entry of "while True"
seed_setup ==
  /\ wpc = "load"
  /\ LET err == load_content_files(dirExists, nfiles) IN
       IF err # "none"
         THEN /\ wpc' = "raised"
              /\ werr' = err
              /\ UNCHANGED <<torrents, created, handles, addFailed>>
         ELSE \E o \in AddOutcomes(torrents) :
              LET written == add_torrents_written(o, torrents)
                  h == Cardinality(add_torrents_handles(o))
              IN /\ torrents' = torrents \cup written
                 /\ created' = Cardinality(written)
                 /\ handles' = h
                 /\ addFailed' = Cardinality(add_torrents_failed(o))
                 /\ IF check_handles(h) # "none"
                      THEN wpc' = "raised" /\ werr' = check_handles(h)
                      ELSE wpc' = "loop" /\ UNCHANGED werr
  /\ UNCHANGED <<orchVars, taskVars, umVars, emits, contentVars>>
  /\ UNCHANGED <<session, preexisting, status>>

\* Seedbox.get_status (peers and uploaded bytes are not modelled)
get_status(h) ==
  IF h = 0 THEN [logged |-> TRUE, active |-> FALSE, torrents |-> 0]
  ELSE [logged |-> TRUE, active |-> TRUE, torrents |-> h]

\* one round of "while True": compute and log the status, sleep
seed_status_tick ==
  /\ wpc = "loop"
  /\ status' = get_status(handles)
  /\ UNCHANGED <<orchVars, taskVars, umVars, emits, contentVars>>
  /\ UNCHANGED <<wpc, werr, session, torrents, preexisting, created, handles, addFailed>>

\* handle.status() raises inside the loop: the only way out of it
seed_status_fails ==
  /\ wpc = "loop"
  /\ wpc' = "raised" /\ werr' = "status"
  /\ UNCHANGED <<orchVars, taskVars, umVars, emits, contentVars>>
  /\ UNCHANGED <<session, torrents, preexisting, created, handles, addFailed, status>>

\* ---- the specification ---------------------------------------------------
Next ==
  \/ \E signum \in Signals : Signal(signum)
  \/ main_run
  \/ check_for_updates_top
  \/ \E outcome \in {"true", "false", "CodeSyncError", "Exception"} :
       has_updates_returns(outcome)
  \/ \E outcome \in {"ok", "CodeSyncError", "Exception"} :
       pull_updates_returns(outcome)
  \/ check_for_updates_wake
  \/ \E outcome \in {"ok", "Exception"} : heartbeat_step(outcome)
  \/ heartbeat_wake
  \/ run_seedbox_start
  \/ run_seedbox_complete
  \/ \E t \in Tasks : task_cancelled(t)
  \/ run_gather_ends
  \/ run_await_done
  \/ run_executor_shutdown
  \/ main_returns
  \/ seed_initialize_session
  \/ seed_setup
  \/ seed_status_tick
  \/ seed_status_fails

Spec == Init /\ [][Next]_vars

TypeOK ==
  /\ running \in BOOLEAN
  /\ stopRequested \in BOOLEAN
  /\ main_pc \in {"constructed", "asyncio_run", "exited"}
  /\ exitCode \in ExitCodes \cup {"none"}
  /\ sysExit \in BOOLEAN
  /\ run_pc \in {"init", "gather", "await2", "shutdown", "stopped"}
  /\ runExc \in {"none", "Exception", "SystemExit"}
  /\ tpc \in [Tasks -> {"none", "new", "has", "pull", "sleep", "ready", "await", "done"}]
  /\ tres \in [Tasks -> {"pending", "returned", "raised", "sysexit", "cancelled"}]
  /\ cancelReq \in [Tasks -> BOOLEAN]
  /\ cancels \in [Tasks -> 0..2]
  /\ hasCalls \in 0..MaxPolls /\ hasInFlight \in 0..1
  /\ syncErrs \in 0..MaxPolls /\ umSleeps \in 0..MaxPolls
  /\ allErrors \in BOOLEAN
  /\ emits \in 0..MaxBeats
  /\ wpc \in {"idle", "queued", "cancelled", "load", "loop", "raised"}
  /\ werr \in {"none", "dir_not_found", "no_files", "no_torrents", "status"}
  /\ session \in BOOLEAN /\ dirExists \in BOOLEAN
  /\ nfiles \in Nat /\ torrents \subseteq 1..nfiles /\ preexisting \subseteq torrents
  /\ created \in 0..nfiles /\ handles \in 0..nfiles /\ addFailed \in 0..nfiles

\* The same program under the scheduling the runtimes guarantee: the event
\* loop runs every callback that is ready, a sleep elapses, a call made on
\* the loop thread returns (with some outcome), and the worker thread runs.
\* Signals, and a failure of handle.status() inside the session loop, are
\* events of the environment and need never happen.
Fairness ==
  /\ WF_vars(main_run)
  /\ WF_vars(check_for_updates_top)
  /\ WF_vars(\E outcome \in {"true", "false", "CodeSyncError", "Exception"} :
               has_updates_returns(outcome))
  /\ WF_vars(\E outcome \in {"ok", "CodeSyncError", "Exception"} :
               pull_updates_returns(outcome))
  /\ WF_vars(check_for_updates_wake)
  /\ WF_vars(\E outcome \in {"ok", "Exception"} : heartbeat_step(outcome))
  /\ WF_vars(heartbeat_wake)
  /\ WF_vars(run_seedbox_start)
  /\ WF_vars(run_seedbox_complete)
  /\ \A t \in Tasks : WF_vars(task_cancelled(t))
  /\ WF_vars(run_gather_ends)
  /\ WF_vars(run_await_done)
  /\ WF_vars(run_executor_shutdown)
  /\ WF_vars(main_returns)
  /\ WF_vars(seed_initialize_session)
  /\ WF_vars(seed_setup)
  /\ WF_vars(seed_status_tick)

FairSpec == Spec /\ Fairness

\* ---- the program left to iterate ------------------------------------------
\* The same program, under the same scheduling, started on a content
\* directory that holds one file and never sent a signal: the runs in which
\* the flag stays up and the session can reach its loop.
LoopInit ==
  /\ OrchInit
  /\ dirExists = TRUE /\ nfiles = 1
  /\ torrents \in SUBSET (1..nfiles)
  /\ preexisting = torrents

LoopNext ==
  \/ main_run
  \/ check_for_updates_top
  \/ \E outcome \in {"true", "false", "CodeSyncError", "Exception"} :
       has_updates_returns(outcome)
  \/ \E outcome \in {"ok", "CodeSyncError", "Exception"} :
       pull_updates_returns(outcome)
  \/ check_for_updates_wake
  \/ \E outcome \in {"ok", "Exception"} : heartbeat_step(outcome)
  \/ heartbeat_wake
  \/ run_seedbox_start
  \/ run_seedbox_complete
  \/ \E t \in Tasks : task_cancelled(t)
  \/ run_gather_ends
  \/ run_await_done
  \/ run_executor_shutdown
  \/ main_returns
  \/ seed_initialize_session
  \/ seed_setup
  \/ seed_status_tick
  \/ seed_status_fails

LoopSpec == LoopInit /\ [][LoopNext]_vars /\ Fairness

\* ---- the seeding session by itself -----------------------------------------
\* Nothing on the event-loop thread writes the state of the seeding session,
\* and seed_content reads nothing of the orchestrator: the session from its
\* submission to its end, for content directories of up to MaxSeedFiles
\* files, with the other two tasks and the signals left out.
SeedInit == OrchInit /\ ContentInit(MaxSeedFiles)

SeedNext ==
  \/ main_run
  \/ run_seedbox_start
  \/ seed_initialize_session
  \/ seed_setup
  \/ seed_status_tick
  \/ seed_status_fails
  \/ run_seedbox_complete

SeedSpec == SeedInit /\ [][SeedNext]_vars

\* ---- vocabulary of the properties ----------------------------------------
PullSucceeded == tres["check_for_updates"] = "sysexit"

FatalRaised == \E t \in {"check_for_updates", "heartbeat"} : tres[t] = "raised"

Exited == main_pc = "exited"

\* C1: once pull_updates() has returned successfully the process terminates
\* with exit code RESTART, whatever the worker is doing, no other exit code
\* is ever produced, and has_updates()/pull_updates() are not called again.
C1_RestartAfterPull ==
  /\ PullSucceeded ~> (Exited /\ exitCode = "EXIT_RESTART")
  /\ [](PullSucceeded => exitCode \in {"none", "EXIT_RESTART"})
  /\ [][PullSucceeded =>
          /\ hasCalls' = hasCalls
          /\ tpc'["check_for_updates"] = tpc["check_for_updates"]]_vars

\* C2: a signal that arrives while heartbeat is suspended in its sleep sets
\* running to false, no further record is emitted, and the supervisor goes
\* on to its shutdown without the sleep having to elapse: the sleep of a
\* stopped heartbeat is never waited out while run() is still in its wait.
C2_SignalMidSleep ==
  [][(main_pc = "asyncio_run" /\ tpc["heartbeat"] = "sleep") =>
       /\ (stopRequested' /\ ~stopRequested => ~running')
       /\ (~running => emits' = emits)
       /\ (~running /\ run_pc = "gather" => tpc'["heartbeat"] # "ready")]_vars

\* the stop flag is down and the tasks exist
C3_Stopped == ~running /\ run_pc # "init"

\* a task that leaves its suspension ends, returned or cancelled
C3_TaskEnds(t) ==
  (tpc[t] \in {"new", "ready"} /\ tpc'[t] # tpc[t]) =>
    (tpc'[t] = "done" /\ tres'[t] \in {"returned", "cancelled"})

\* C3: while running is false (after the tasks were started) it stays
\* false, no has_updates() call is issued, pull_updates() is called only to
\* finish the iteration in flight, no record is emitted, and a task that
\* evaluates its loop condition ends, returning normally.
C3_NoNewIteration ==
  [][C3_Stopped =>
       /\ ~running'
       /\ hasCalls' = hasCalls
       /\ (tpc'["check_for_updates"] = "pull" => tpc["check_for_updates"] \in {"has", "pull"})
       /\ emits' = emits
       /\ C3_TaskEnds("check_for_updates")
       /\ C3_TaskEnds("heartbeat")
       /\ (tpc["heartbeat"] = "ready" /\ ~cancelReq["heartbeat"] /\ tpc'["heartbeat"] = "done"
             => tres'["heartbeat"] = "returned")
       /\ (tpc["check_for_updates"] = "ready" /\ ~cancelReq["check_for_updates"]
             /\ tpc'["check_for_updates"] = "done"
             => tres'["check_for_updates"] = "returned")]_vars

\* both tasks have iterated, were stopped below the bounds, and returned
C3_Witness ==
  /\ ~running
  /\ tres["check_for_updates"] = "returned" /\ tres["heartbeat"] = "returned"
  /\ umSleeps >= 1 /\ hasCalls < MaxPolls
  /\ emits >= 1 /\ emits < MaxBeats

\* C4: a CodeSyncError from has_updates() or pull_updates() is absorbed: the
\* task goes to its sleep, stays pending, and nothing of the supervisor or
\* of the exit changes; a task woken while running is true polls again; so
\* while every round so far failed, the call in flight is number N+1 after
\* N errors.
C4_SyncErrorAbsorbed ==
  /\ [][syncErrs' # syncErrs =>
          /\ tpc'["check_for_updates"] = "sleep"
          /\ tres'["check_for_updates"] = "pending"
          /\ UNCHANGED <<orchVars, cancelReq>>]_vars
  /\ [][(running /\ tpc["check_for_updates"] = "ready"
           /\ tpc'["check_for_updates"] # "ready"
           /\ ~cancelReq["check_for_updates"])
          => (tpc'["check_for_updates"] = "has" /\ hasCalls' = hasCalls + 1)]_vars
  /\ [](allErrors /\ tpc["check_for_updates"] = "has" => hasCalls = syncErrs + 1)
  /\ [](allErrors /\ tpc["check_for_updates"] \in {"sleep", "ready"} => hasCalls = syncErrs)

\* two failed rounds in a row, and the third poll in flight
C4_Witness ==
  /\ allErrors /\ syncErrs = 2 /\ hasCalls = 3
  /\ tpc["check_for_updates"] = "has"
  /\ exitCode = "none" /\ run_pc = "gather"

\* C5: at most one has_updates() call is in flight, and call number k is
\* issued after exactly k-1 poll-interval sleeps have elapsed.
C5_OncePerInterval ==
  /\ hasInFlight <= 1
  /\ (hasInFlight = 1) = (tpc["check_for_updates"] = "has")
  /\ (tpc["check_for_updates"] \in {"has", "pull", "sleep"} => hasCalls = umSleeps + 1)
  /\ (tpc["check_for_updates"] = "ready" => hasCalls = umSleeps)
  /\ hasCalls <= umSleeps + 1

C5_Witness ==
  /\ hasCalls = 3 /\ umSleeps = 2 /\ tpc["check_for_updates"] = "has"

\* C6: an exception other than CodeSyncError raised in check_for_updates or
\* heartbeat leads to the process exiting with FAILURE, whatever the worker
\* is doing (a restart requested by pull_updates() before run() has seen
\* the failure is set aside here).
C6_FatalExitsFailure ==
  FatalRaised ~> ((Exited /\ exitCode = "EXIT_FAILURE") \/ PullSucceeded)

\* C7: a failure of the seeding session never leaves the run_seedbox task:
\* the task returns normally, and unless one of the other two tasks failed
\* or requested a restart, the exit is not FAILURE, the other two tasks are
\* not cancelled, and run() stays in its wait until they have returned.
C7_SeedFailureContained ==
  /\ tres["run_seedbox"] # "raised"
  /\ (tres["run_seedbox"] = "returned" /\ ~FatalRaised /\ ~PullSucceeded) =>
       /\ exitCode \in {"none", "EXIT_SUCCESS"}
       /\ runExc = "none"
       /\ \A t \in {"check_for_updates", "heartbeat"} :
            /\ ~cancelReq[t] /\ tres[t] \in {"pending", "returned"}
            /\ (tres[t] = "pending" => run_pc = "gather")

\* the session has failed, the bridge has returned, the other two iterate
C7_Witness ==
  /\ wpc = "raised" /\ tres["run_seedbox"] = "returned"
  /\ running /\ tpc["check_for_updates"] = "has" /\ hasCalls >= 2
  /\ tpc["heartbeat"] = "sleep" /\ emits >= 2

\* C8: with the content directory missing the session fails before any
\* network session is opened, and run_seedbox returns without raising.
C8_FailsBeforeSession ==
  /\ (~dirExists /\ wpc = "raised" => ~session)
  /\ (~dirExists /\ wpc = "raised" => werr = "dir_not_found")
  /\ (~dirExists => tres["run_seedbox"] # "raised")

\* C9: both signals do the same, which is to clear running and nothing
\* else; the exit code is FAILURE only after a fatal error, RESTART only
\* after a successful pull, and otherwise, once a signal was handled,
\* SUCCESS.
C9_SignalNotError ==
  /\ [](\A signum \in Signals : handle_shutdown(signum, running) = FALSE)
  /\ [][(stopRequested' # stopRequested \/ (running /\ ~running')) =>
          /\ stopRequested' /\ ~running'
          /\ UNCHANGED <<main_pc, exitCode, sysExit, run_pc, runExc, taskVars,
                         umVars, emits, wpc, contentVars, seedVars>>]_vars
  /\ [](exitCode = "EXIT_FAILURE" => FatalRaised)
  /\ [](exitCode = "EXIT_RESTART" => PullSucceeded)
  /\ []((stopRequested /\ Exited /\ ~FatalRaised /\ ~PullSucceeded)
          => exitCode = "EXIT_SUCCESS")

\* the process was stopped by a signal while iterating and has exited
C9_Witness ==
  /\ stopRequested /\ ~running /\ Exited /\ exitCode = "EXIT_SUCCESS"
  /\ hasCalls >= 1 /\ emits >= 1

\* C10: once run() has been through its finally block, going through it
\* again cancels nothing (every cancel() is refused, no request is added,
\* no task has been cancelled twice) and waits for nothing (all tasks are
\* done, the worker has ended).
C10_ShutdownIdempotent ==
  /\ \A t \in Tasks : cancels[t] <= 1
  /\ run_pc = "stopped" =>
       /\ cancel_all_requests = cancelReq
       /\ cancel_all_counts = cancels
       /\ \A t \in Tasks : Done(t) /\ ~cancelReq[t]
       /\ workerIdle

\* stopped after a shutdown that did cancel tasks
C10_Witness ==
  /\ run_pc = "stopped"
  /\ cancels["heartbeat"] = 1 /\ cancels["run_seedbox"] = 1
  /\ tres["run_seedbox"] = "cancelled"

\* _add_torrents has returned
AddDone == wpc = "loop" \/ (wpc = "raised" /\ werr \in {"no_torrents", "status"})

\* n >= 1 eligible files, no companion file beforehand, no file failed
CleanRun == AddDone /\ nfiles >= 1 /\ preexisting = {} /\ addFailed = 0

\* C11: with n >= 1 eligible files, no companion file beforehand and no
\* failure in _add_torrents, the session has written n .torrent files, one
\* per file, holds n handles and goes into its loop, and every status it
\* logs has active true and torrents n; in any run, no .torrent file is
\* written for a file whose companion existed, and one is written for
\* every other file unless its creation failed.
C11_OneTorrentPerFile ==
  /\ CleanRun =>
       /\ created = nfiles /\ torrents = 1..nfiles /\ handles = nfiles
       /\ werr \in {"none", "status"}
       /\ (status.logged => status.active /\ status.torrents = nfiles)
  /\ AddDone =>
       /\ preexisting \subseteq torrents
       /\ created = Cardinality(torrents \ preexisting)
       /\ created + Cardinality(preexisting) >= nfiles - addFailed
  /\ ~AddDone => created = 0 /\ torrents = preexisting /\ ~status.logged

\* three files, none with a companion: three created, three in the status
C11_Witness ==
  /\ CleanRun /\ nfiles = 3 /\ created = 3 /\ handles = 3
  /\ status.logged /\ status.active /\ status.torrents = 3

\* C12: run() leaves its wait only into the finally block, where every task
\* that is not done has a cancellation pending; it enters
\* executor.shutdown only from the second gather, with all three tasks done
\* and without a new exception from them; executor.shutdown returns only
\* when the worker has ended; so the worker is never waited for, and run()
\* never stopped, while a task is still running.
C12_ShutdownOrder ==
  /\ [][run_pc' # run_pc =>
          /\ (run_pc = "gather" =>
                /\ run_pc' = "await2"
                /\ \A t \in Tasks : ~Done(t) => cancelReq'[t])
          /\ (run_pc = "await2" =>
                /\ run_pc' = "shutdown"
                /\ \A t \in Tasks : Done(t)
                /\ runExc' = runExc)
          /\ (run_pc = "shutdown" => run_pc' = "stopped" /\ workerIdle)
          /\ run_pc # "stopped"]_vars
  /\ [](run_pc \in {"shutdown", "stopped"} => \A t \in Tasks : Done(t))
  /\ [](run_pc = "stopped" => workerIdle)

\* a fatal error ended the wait, the two other tasks were cancelled and
\* awaited, the session had failed by itself, and run() has stopped
C12_Witness ==
  /\ run_pc = "stopped" /\ runExc = "Exception"
  /\ tres["heartbeat"] = "raised"
  /\ tres["check_for_updates"] = "cancelled" /\ tres["run_seedbox"] = "cancelled"
  /\ werr = "status"

\* C13: after pull_updates() has succeeded the exit does not pass through
\* the shutdown sequence of run(): run() is never in its finally block,
\* neither cancelling and awaiting the tasks nor waiting for the executor,
\* while the worker is in its session loop.
C13_RestartBypassesShutdown ==
  (PullSucceeded /\ wpc = "loop") => run_pc \notin {"await2", "shutdown"}

\* the bridge task is done and the other two tasks are in their sleeps
C14_BridgeDoneOthersAsleep ==
  /\ Done("run_seedbox") /\ run_pc = "gather"
  /\ tpc["check_for_updates"] = "sleep" /\ tpc["heartbeat"] = "sleep"

\* C14 as stated: the completion of the run_seedbox task ends the wait of
\* run(): once that task is done and the other two are asleep, what comes
\* next (a signal apart) is run() leaving its wait, not the end of a sleep.
C14_BridgeCompletionEndsWait ==
  [][(C14_BridgeDoneOthersAsleep /\ UNCHANGED <<running, stopRequested>>)
       => run_pc' # "gather"]_vars

\* C14 amended: run() leaves its wait, into the finally block, only when
\* all three tasks have returned, or a task has raised, or a SystemExit is
\* leaving the loop; when it left without an exception all three tasks had
\* returned; and while the run_seedbox task is done, another task is not,
\* and there is neither a failure nor a restart, run() stays in its wait.
C14_WaitEnds ==
  /\ [][(run_pc = "gather" /\ run_pc' # "gather") =>
          /\ run_pc' = "await2"
          /\ \/ \A t \in Tasks : tres[t] = "returned"
             \/ \E t \in Tasks : tres[t] = "raised"
             \/ sysExit]_vars
  /\ []((run_pc \in {"await2", "shutdown", "stopped"} /\ runExc = "none")
          => \A t \in Tasks : tres[t] = "returned")
  /\ []((Done("run_seedbox") /\ (\E t \in Tasks : ~Done(t))
            /\ ~FatalRaised /\ ~PullSucceeded)
          => run_pc = "gather")

\* the wait has ended normally: the session failed, the bridge returned,
\* and the two loops, stopped by a signal after iterating, returned
C14_Witness ==
  /\ run_pc = "await2" /\ runExc = "none"
  /\ wpc = "raised" /\ \A t \in Tasks : tres[t] = "returned"
  /\ stopRequested /\ umSleeps >= 1 /\ emits >= 1

\* task t is in its loop and nothing has been done to end it: the flag is
\* up, no cancellation is pending, run() is in its wait
C15_Iterating(t) ==
  /\ running /\ run_pc = "gather"
  /\ tres[t] = "pending" /\ ~cancelReq[t]

\* C15: with the worker inside the session loop, the heartbeat task that
\* has emitted k records emits record k+1, and the check_for_updates task
\* that has made k polls makes poll k+1, unless the flag goes down or the
\* task is ended by a failure or a cancellation: the pending run_seedbox
\* task does not hold them up.
C15_OthersNotBlocked ==
  /\ \A k \in 0..(MaxBeats - 1) :
       (wpc = "loop" /\ emits = k /\ C15_Iterating("heartbeat"))
         ~> (emits > k \/ ~C15_Iterating("heartbeat"))
  /\ \A k \in 0..(MaxPolls - 1) :
       (wpc = "loop" /\ hasCalls = k /\ C15_Iterating("check_for_updates"))
         ~> (hasCalls > k \/ ~C15_Iterating("check_for_updates"))

\* the worker is in its loop, the bridge is suspended, and both tasks have
\* gone through all their iterations
C15_Witness ==
  /\ wpc = "loop" /\ status.logged /\ tpc["run_seedbox"] = "await"
  /\ running /\ run_pc = "gather"
  /\ emits = MaxBeats /\ hasCalls = MaxPolls
  /\ tres["heartbeat"] = "pending" /\ tres["check_for_updates"] = "pending"

\* seed_content is executing on the worker thread
C16_WorkerRunning == wpc \in {"load", "loop"}

\* C16: nothing done on the event-loop thread touches the running worker:
\* a step that cancels or ends a task, lowers the flag or moves run()
\* leaves the position of seed_content and the state of its session as
\* they are; the worker's position changes only by a step of its own,
\* which touches nothing of the orchestrator; and while seed_content
\* executes, executor.shutdown does not return and the process does not
\* exit.
C16_WorkerNotInterrupted ==
  /\ [][(C16_WorkerRunning /\
           (running' # running \/ tpc' # tpc \/ tres' # tres
              \/ cancelReq' # cancelReq \/ run_pc' # run_pc))
          => UNCHANGED <<wpc, seedVars>>]_vars
  /\ [][(C16_WorkerRunning /\ wpc' # wpc)
          => UNCHANGED <<orchVars, taskVars, umVars, emits>>]_vars
  /\ [][seedVars' # seedVars => UNCHANGED <<orchVars, taskVars, umVars, emits>>]_vars
  /\ [](C16_WorkerRunning => run_pc # "stopped" /\ main_pc # "exited")

\* the heartbeat failed, a signal lowered the flag, the bridge task was
\* cancelled and awaited, run() waits in executor.shutdown, and the worker
\* is still in its loop, logging
C16_Witness ==
  /\ wpc = "loop" /\ status.logged /\ session
  /\ tres["run_seedbox"] = "cancelled" /\ tres["heartbeat"] = "raised"
  /\ stopRequested /\ ~running /\ run_pc = "shutdown"

\* seed_content is past its setup: in the loop, or ended by an exception
C17_SetupOver == wpc \in {"loop", "raised"}

\* seed_content raised without having entered "while True"
C17_SetupFailed ==
  wpc = "raised" /\ werr \in {"dir_not_found", "no_files", "no_torrents"}

\* C17: seed_content fails before its loop exactly when the directory is
\* missing, or holds no eligible file, or no handle was added; with one
\* handle or more it enters the loop however many files failed; a session
\* that failed before the loop has logged no status; and whatever ends
\* seed_content leaves it as a SeedboxError.
C17_SetupFailsExactlyWhen ==
  /\ C17_SetupOver =>
       /\ C17_SetupFailed <=> (~dirExists \/ nfiles = 0 \/ handles = 0)
       /\ (werr = "dir_not_found") <=> ~dirExists
       /\ (werr = "no_files") <=> (dirExists /\ nfiles = 0)
       /\ (werr = "no_torrents") <=> (nfiles >= 1 /\ handles = 0)
       /\ handles + addFailed = nfiles
       /\ handles >= 1 => (wpc = "loop" \/ werr = "status")
  /\ C17_SetupFailed => ~status.logged
  /\ wpc = "raised" => seed_content_except(seed_content_raised(werr)) = "SeedboxError"
  /\ tres["run_seedbox"] \in {"pending", "returned"}

\* three files, two of them failed, one registered: the session loops
C17_Witness ==
  /\ nfiles = 3 /\ addFailed = 2 /\ handles = 1
  /\ wpc = "loop" /\ status.logged /\ status.torrents = 1

\* C18: the handler can run in every state of the live process, waiting
\* for nothing (also while the loop thread is inside has_updates() or
\* executor.shutdown); the step that handles a signal leaves running false
\* and changes nothing else: no task is cancelled or moved, run() and the
\* worker stay where they are; and applied to the state a signal has left,
\* the handler gives that state again, for either signal.
C18_SignalIdempotent ==
  /\ [](main_pc # "exited" => \A signum \in Signals : ENABLED Signal(signum))
  /\ [][(stopRequested' # stopRequested \/ (running /\ ~running')) =>
          /\ running' = FALSE
          /\ UNCHANGED <<tpc, tres, cancelReq, cancels, run_pc, main_pc, wpc>>
          /\ UNCHANGED <<exitCode, sysExit, runExc, umVars, emits, contentVars, seedVars>>]_vars
  /\ [](\A s1 \in Signals, s2 \in Signals :
          handle_shutdown(s2, handle_shutdown(s1, running)) = handle_shutdown(s1, running))
  /\ []((stopRequested /\ ~running) =>
          \A signum \in Signals : handle_shutdown(signum, running) = running)

\* signals were handled while everything was under way: the flag is down,
\* the three tasks are pending and uncancelled, the worker is in its loop
C18_Witness ==
  /\ stopRequested /\ ~running /\ run_pc = "gather"
  /\ \A t \in Tasks : tres[t] = "pending" /\ cancels[t] = 0 /\ ~cancelReq[t]
  /\ tpc["check_for_updates"] = "has" /\ tpc["heartbeat"] = "sleep"
  /\ wpc = "loop"

\* C19: once a signal has been handled, at any point after the handlers
\* were installed, running is false and no step sets it to true again, so
\* no has_updates() call is issued and no record is emitted afterwards.
C19_StopNeverLost ==
  /\ [][stopRequested' => ~running']_vars
  /\ [][stopRequested => (hasCalls' = hasCalls /\ emits' = emits)]_vars

====
